---- MODULE Spec2Model ----
(***************************************************************************)
(* SettingsCache (src/lib/settings/SettingsCache.js): the registry that    *)
(* creates one Gateway per name, after validating the name, the validate   *)
(* function, the schema and the two providers.                             *)
(*                                                                         *)
(* JavaScript values are records with a type tag `t`, so that typeof, the  *)
(* truthiness test of `a || b` and the property-key conversion of          *)
(* `this[name]` are computed and not assumed.                              *)
(***************************************************************************)
EXTENDS Integers, Sequences, FiniteSets, TLC

VARIABLES self, gateways, calls, heap, config, last, ncalls, host, read

vars == <<self, gateways, calls, heap, config, last, ncalls, host, read>>

(***************************************************************************)
(* Bounds of the model.                                                    *)
(***************************************************************************)
\* add() invocations made over the run.
MaxCalls == 3
\* options objects the callers build and keep a reference to (SpecShared).
MaxHeld == 1
\* accesses to defaultDataSchema made over the run (SpecHost).
MaxReads == 2

(***************************************************************************)
(* JavaScript values.                                                      *)
(***************************************************************************)
Undefined == [t |-> "undefined", v |-> "", n |-> 0]
Null == [t |-> "null", v |-> "", n |-> 0]
Str(s) == [t |-> "string", v |-> s, n |-> 0]
Num(i) == [t |-> "number", v |-> "", n |-> i]
Fn(f) == [t |-> "function", v |-> f, n |-> 0]
\* A provider object, identified by the name it is registered under.
ProviderObj(p) == [t |-> "object", v |-> p, n |-> 0]

\* typeof x
TypeOf(x) == IF x.t = "null" THEN "object" ELSE x.t

\* ToBoolean(x), as used by the || operator
Truthy(x) ==
    CASE x.t = "undefined" -> FALSE
      [] x.t = "null" -> FALSE
      [] x.t = "string" -> x.v # ""
      [] x.t = "number" -> x.n # 0
      [] OTHER -> TRUE

\* a || b
Or(a, b) == IF Truthy(a) THEN a ELSE b

Digit(d) ==
    CASE d = 0 -> "0" [] d = 1 -> "1" [] d = 2 -> "2" [] d = 3 -> "3"
      [] d = 4 -> "4" [] d = 5 -> "5" [] d = 6 -> "6" [] d = 7 -> "7"
      [] d = 8 -> "8" [] d = 9 -> "9"

RECURSIVE NumberToString(_)
NumberToString(i) ==
    IF i < 10 THEN Digit(i) ELSE NumberToString(i \div 10) \o Digit(i % 10)

\* The property key `this[x]` reads and writes: strings as they are, numbers
\* in their decimal form.
ToPropertyKey(x) ==
    CASE x.t = "string" -> x.v
      [] x.t = "number" -> NumberToString(x.n)
      [] OTHER -> x.t

(***************************************************************************)
(* Inputs.                                                                 *)
(***************************************************************************)
\* name arguments: non-strings, registrable strings, and a string that names
\* a member every SettingsCache instance has.
NameArgs == {Num(42), Str("42"), Str("guilds"), Str("add")}

\* validateFunction arguments
ValidateArgs == {Fn("validateFn"), Undefined}

\* schema arguments: [t, ctor, keys]; ctor is schema.constructor.name
SchemaOmitted == [t |-> "undefined", ctor |-> "", keys |-> {}]
EmptySchema == [t |-> "object", ctor |-> "Object", keys |-> {}]
QuoteSchema == [t |-> "object", ctor |-> "Object", keys |-> {"quote"}]
ArraySchema == [t |-> "object", ctor |-> "Array", keys |-> {}]
NullSchema == [t |-> "null", ctor |-> "", keys |-> {}]
SchemaArgs == {SchemaOmitted, QuoteSchema, ArraySchema, NullSchema}

\* client.providers: name -> provider.  `cache` is the provider's cache flag:
\* "true" (built for caching only), "false" (built for persistent data only)
\* or "undefined" (the flag is not set).
Providers ==
    [json |-> [name |-> "json", sql |-> FALSE, cache |-> "false"],
     sqlite |-> [name |-> "sqlite", sql |-> TRUE, cache |-> "false"],
     collection |-> [name |-> "collection", sql |-> FALSE, cache |-> "true"],
     hybrid |-> [name |-> "hybrid", sql |-> FALSE, cache |-> "undefined"]]

ProviderNames == DOMAIN Providers

\* engine names a caller puts in options: left out, registered ones and one
\* that is not registered ("json" is the engine the code falls back to)
EngineArgs == {Undefined, Str("sqlite"), Str("collection"), Str("hybrid"), Str("nope")}

Options(p, c) == [provider |-> p, cache |-> c]

\* options arguments: left out ({}), each role given a provider that is built
\* for the other role, that is not registered or that may serve it, alone and
\* together with a good and a bad choice for the other role
OptionArgs ==
    {Options(Undefined, Undefined),
     Options(Str("collection"), Undefined),
     Options(Str("collection"), Str("sqlite")),
     Options(Str("nope"), Str("nope")),
     Options(Str("hybrid"), Str("hybrid")),
     Options(Str("sqlite"), Str("collection")),
     Options(Undefined, Str("sqlite")),
     Options(Str("hybrid"), Str("nope"))}

\* client.config.provider: {engine, cache}
ConfigArgs ==
    {[engine |-> Undefined, cache |-> Undefined],
     [engine |-> Str("sqlite"), cache |-> Str("hybrid")]}

(***************************************************************************)
(* The SettingsCache instance: its properties.                             *)
(***************************************************************************)
\* Property values: [t, cls, id]; a gateway is an object of class Gateway or
\* GatewaySQL whose id is its index in `gateways`.
NoProp == [t |-> "undefined", cls |-> "", id |-> 0]
GatewayRef(cls, g) == [t |-> "object", cls |-> cls, id |-> g]
GatewayClasses == {"Gateway", "GatewaySQL"}

\* The methods of the class (lines 59, 78, 91; constructor) and the function
\* members every object inherits from Object.prototype.
MethodKeys ==
    {"add", "_checkProvider", "validate", "constructor",
     "toString", "toLocaleString", "valueOf", "hasOwnProperty", "isPrototypeOf",
     "propertyIsEnumerable", "__defineGetter__", "__defineSetter__",
     "__lookupGetter__", "__lookupSetter__"}

\* What `this[key]` yields on a new SettingsCache: the own properties set by
\* the constructor, the getter of line 102, __proto__ (the prototype object)
\* and the methods of the class and of Object.prototype.
Members ==
    [k \in {"client", "resolver", "types", "defaultDataSchema", "__proto__"} \cup MethodKeys |->
        CASE k = "client" -> [t |-> "object", cls |-> "KlasaClient", id |-> 0]
          [] k = "resolver" -> [t |-> "object", cls |-> "SettingResolver", id |-> 0]
          [] k = "types" -> [t |-> "object", cls |-> "Array", id |-> 0]
          [] k = "defaultDataSchema" -> [t |-> "object", cls |-> "Object", id |-> 0]
          [] k = "__proto__" -> [t |-> "object", cls |-> "SettingsCache", id |-> 0]
          [] OTHER -> [t |-> "function", cls |-> "Function", id |-> 0]]

PropertyKeys == DOMAIN Members \cup {ToPropertyKey(x) : x \in NameArgs}

constructor ==
    [k \in PropertyKeys |-> IF k \in DOMAIN Members THEN Members[k] ELSE NoProp]

\* The domain mapping: the names a gateway is registered under.
Domains == {k \in PropertyKeys : self[k].cls \in GatewayClasses}

(***************************************************************************)
(* add(): the synchronous part, lines 59-74.                               *)
(***************************************************************************)
NoError == [kind |-> "none", msg |-> ""]
Err(kind, msg) == [kind |-> kind, msg |-> msg]

\* Variant: numbers are taken for names as well.
NameIsString_OrNumber(name) == TypeOf(name) \in {"string", "number"}

\* line 60
NameIsString(name) == TypeOf(name) = "string"

\* Variant: only a function-valued property counts as taken.
IsRegistered_IfFunction(s, name) == TypeOf(s[ToPropertyKey(name)]) = "function"

\* line 61
IsRegistered(s, name) == TypeOf(s[ToPropertyKey(name)]) # "undefined"

\* line 62
IsFunction(f) == TypeOf(f) = "function"

\* line 63: validateFunction.bind(null, this.resolver)
Bind(f) == [target |-> f.v, boundArgs |-> <<"resolver">>]

\* line 59: the default value of the schema parameter
SchemaParam(schema) == IF schema.t = "undefined" THEN EmptySchema ELSE schema

\* line 64: reading schema.constructor throws a TypeError on null
SchemaThrows(schema) == schema.t = "null"
SchemaIsPlain(schema) == schema.ctor = "Object"

\* Variant: an engine that is not registered yields the "json" provider.
checkProvider_Fallback(engine) ==
    IF engine.t = "string" /\ engine.v \in ProviderNames
    THEN [error |-> NoError, provider |-> ProviderObj(engine.v)]
    ELSE [error |-> NoError, provider |-> ProviderObj("json")]

\* lines 78-83: this.client.providers.get(engine); the store is keyed by name
ProvidersGet(engine) == engine.t = "string" /\ engine.v \in ProviderNames
checkProvider(engine) ==
    IF ProvidersGet(engine)
    THEN [error |-> NoError, provider |-> ProviderObj(engine.v)]
    ELSE [error |-> Err("UnknownProvider", "does not exist in your system"),
          provider |-> Undefined]

\* line 66, 68: the engine name the lookup is made with
ProviderEngine(options, cfg) == Or(Or(options.provider, cfg.engine), Str("json"))
CacheEngine(options, cfg) == Or(Or(options.cache, cfg.cache), Str("collection"))

\* Variant: the test of line 67 negated.
IsCacheOnly_Negated(p) == Providers[p.v].cache # "true"

\* line 67: if (options.provider.cache)
IsCacheOnly(p) == Providers[p.v].cache = "true"

\* Variant: the flag compared with a string, which it never equals.
IsPersistentOnly_String(p) == Providers[p.v].cache = "'false'"

\* line 69: if (options.cache.cache === false)
IsPersistentOnly(p) == Providers[p.v].cache = "false"

\* Variant: the two branches of line 71 exchanged.
GatewayClass_Exchanged(p) == IF Providers[p.v].sql THEN "Gateway" ELSE "GatewaySQL"

\* line 71: if (options.provider.sql)
GatewayClass(p) == IF Providers[p.v].sql THEN "GatewaySQL" ELSE "Gateway"

Outcome(error, options, lookups) ==
    [error |-> error, options |-> options, lookups |-> lookups]

\* Variant: line 69 tests options.provider.cache instead of options.cache.cache.
ResolveProviders_WrongRole(options, cfg) ==
    LET e1 == ProviderEngine(options, cfg)
        r1 == checkProvider(e1)
        o1 == [options EXCEPT !.provider = r1.provider]
        e2 == CacheEngine(o1, cfg)
        r2 == checkProvider(e2)
        o2 == [o1 EXCEPT !.cache = r2.provider]
    IN IF r1.error # NoError THEN Outcome(r1.error, options, <<e1>>)
       ELSE IF IsCacheOnly(o1.provider)
       THEN Outcome(Err("ProviderRoleMismatch", "designed for caching, not persistent data"),
                    o1, <<e1>>)
       ELSE IF r2.error # NoError THEN Outcome(r2.error, o1, <<e1, e2>>)
       ELSE IF Providers[o2.provider.v].cache = "true"
       THEN Outcome(Err("ProviderRoleMismatch", "designed for persistent data, not cache"),
                    o2, <<e1, e2>>)
       ELSE Outcome(NoError, o2, <<e1, e2>>)

\* Lines 66-69 on the options object `options` ([provider, cache]): the
\* object as the call leaves it, the error thrown and the engines looked up.
ResolveProviders(options, cfg) ==
    LET e1 == ProviderEngine(options, cfg)
        r1 == checkProvider(e1)
        o1 == [options EXCEPT !.provider = r1.provider]
        e2 == CacheEngine(o1, cfg)
        r2 == checkProvider(e2)
        o2 == [o1 EXCEPT !.cache = r2.provider]
    IN IF r1.error # NoError THEN Outcome(r1.error, options, <<e1>>)
       ELSE IF IsCacheOnly(o1.provider)
       THEN Outcome(Err("ProviderRoleMismatch", "designed for caching, not persistent data"),
                    o1, <<e1>>)
       ELSE IF r2.error # NoError THEN Outcome(r2.error, o1, <<e1, e2>>)
       ELSE IF IsPersistentOnly(o2.cache)
       THEN Outcome(Err("ProviderRoleMismatch", "designed for persistent data, not cache"),
                    o2, <<e1, e2>>)
       ELSE Outcome(NoError, o2, <<e1, e2>>)

\* Variant: the validate function is checked before the name is looked up.
Checks_ValidateFirst(s, cfg, name, validateFunction, schema, options) ==
    IF ~NameIsString(name)
    THEN Outcome(Err("InvalidArgument", "You must pass a name"), options, <<>>)
    ELSE IF ~IsFunction(validateFunction)
    THEN Outcome(Err("InvalidArgument", "You must pass a validate function"), options, <<>>)
    ELSE IF IsRegistered(s, name)
    THEN Outcome(Err("DuplicateDomain", "There is already a Gateway with that name"),
                 options, <<>>)
    ELSE IF SchemaThrows(SchemaParam(schema))
    THEN Outcome(Err("TypeError", "Cannot read property 'constructor'"), options, <<>>)
    ELSE IF ~SchemaIsPlain(SchemaParam(schema))
    THEN Outcome(Err("InvalidSchema", "Schema must be a valid object"), options, <<>>)
    ELSE ResolveProviders(options, cfg)

\* Lines 60-69: the checks of add, in the order of the code.
Checks(s, cfg, name, validateFunction, schema, options) ==
    IF ~NameIsString(name)
    THEN Outcome(Err("InvalidArgument", "You must pass a name"), options, <<>>)
    ELSE IF IsRegistered(s, name)
    THEN Outcome(Err("DuplicateDomain", "There is already a Gateway with that name"),
                 options, <<>>)
    ELSE IF ~IsFunction(validateFunction)
    THEN Outcome(Err("InvalidArgument", "You must pass a validate function"), options, <<>>)
    ELSE IF SchemaThrows(SchemaParam(schema))
    THEN Outcome(Err("TypeError", "Cannot read property 'constructor'"), options, <<>>)
    ELSE IF ~SchemaIsPlain(SchemaParam(schema))
    THEN Outcome(Err("InvalidSchema", "Schema must be a valid object"), options, <<>>)
    ELSE ResolveProviders(options, cfg)

\* Variant: the gateway is assigned before the cache provider's role is checked.
Registers_BeforeCacheRole(out) ==
    \/ out.error = NoError
    \/ out.error.msg = "designed for persistent data, not cache"

\* lines 71-72 are reached only when none of the checks has thrown
Registers(out) == out.error = NoError

(***************************************************************************)
(* State.                                                                  *)
(*   self      the properties of the SettingsCache instance (this[key])    *)
(*   gateways  the gateways constructed so far, in order of construction   *)
(*   calls     calls[g]: the add call that constructed gateways[g]         *)
(*   heap      the options objects that are still referenced: by a gateway *)
(*             (options is passed to its constructor) or by a caller       *)
(*   config    client.config.provider                                      *)
(*   last      the most recent add call: its name argument, what its       *)
(*             synchronous part threw and the engines it looked up         *)
(*   ncalls    add calls made so far                                       *)
(***************************************************************************)
(***************************************************************************)
(* client.config.prefix and client.config.language; the default schema.     *)
(***************************************************************************)
\* A configured value: a string (items holds it) or an array of strings.
JString(s) == [ctor |-> "String", items |-> <<s>>]
JArray(xs) == [ctor |-> "Array", items |-> xs]

PrefixArgs == {JString("!"), JArray(<<>>), JArray(<<"!", "?">>)}
LanguageArgs == {JString("en-US"), JString("fr-FR")}
HostArgs == [prefix : PrefixArgs, language : LanguageArgs]
DefaultHost == [prefix |-> JString("!"), language |-> JString("en-US")]

\* JSON.stringify of an array of strings (no character of them is escaped)
RECURSIVE JoinQuoted(_)
JoinQuoted(xs) ==
    IF xs = <<>> THEN ""
    ELSE IF Len(xs) = 1 THEN "\"" \o xs[1] \o "\""
    ELSE "\"" \o xs[1] \o "\"," \o JoinQuoted(Tail(xs))

JSONStringify(x) == "[" \o JoinQuoted(x.items) \o "]"

\* Array.prototype.toString: the items joined by commas
RECURSIVE JoinComma(_)
JoinComma(xs) ==
    IF xs = <<>> THEN ""
    ELSE IF Len(xs) = 1 THEN xs[1]
    ELSE xs[1] \o "," \o JoinComma(Tail(xs))

\* `${value}`: the string itself, the toString() of an array
TemplateString(x) == IF x.ctor = "String" THEN x.items[1] ELSE JoinComma(x.items)

\* Variant: the array flag of prefix is tested on its type name 'Object'.
IsArray_Object(x) == x.ctor = "Object"

\* lines 106, 107: this.client.config.prefix.constructor.name === 'Array'
IsArray(x) == x.ctor = "Array"

\* lines 102-123: the getter, on the configuration h it reads
defaultDataSchema(h) ==
    [k \in {"prefix", "language", "disabledCommands"} |->
        CASE k = "prefix" ->
               [type |-> "String",
                default |-> h.prefix,
                array |-> IsArray(h.prefix),
                sql |-> "TEXT NOT NULL DEFAULT '"
                        \o (IF IsArray(h.prefix) THEN JSONStringify(h.prefix)
                            ELSE TemplateString(h.prefix))
                        \o "'"]
          [] k = "language" ->
               [type |-> "String",
                default |-> h.language,
                array |-> FALSE,
                sql |-> "TEXT NOT NULL DEFAULT '" \o TemplateString(h.language) \o "'"]
          [] k = "disabledCommands" ->
               [type |-> "Command",
                default |-> JArray(<<>>),
                array |-> TRUE,
                sql |-> "TEXT DEFAULT '[]'"]]

NoCall == [name |-> Undefined, error |-> NoError, lookups |-> <<>>, gw |-> 0]

Init ==
    /\ self = constructor
    /\ gateways = <<>>
    /\ calls = <<>>
    /\ heap = <<>>
    /\ config \in ConfigArgs
    /\ last = NoCall
    /\ ncalls = 0
    /\ host = DefaultHost
    /\ read = <<>>

HeldObjects == {o \in 1..Len(heap) : heap[o].held}

\* lines 71-72: new Gateway / new GatewaySQL (this, name, validateFunction, schema, options)
\* (owner: the SettingsCache the gateway is given as its first argument)
NewGateway(name, validateFunction, schema, options, o) ==
    [owner |-> "SettingsCache",
     name |-> ToPropertyKey(name),
     cls |-> GatewayClass(options.provider),
     validate |-> Bind(validateFunction),
     schema |-> SchemaParam(schema),
     options |-> o,
     init |-> "none",
     reason |-> NoError,
     inits |-> 0]

\* Variant: init() is called by the constructor and again by add.
StartInit_Twice(gw) == [gw EXCEPT !.init = "running", !.inits = @ + 2]

\* line 74: this[name].init() is called (and then awaited)
StartInit(gw) == [gw EXCEPT !.init = "running", !.inits = @ + 1]

\* One add call, up to its first suspension (line 74) or its throw.
\* `options` is the options object as the caller passes it; o = 0 when the
\* object is new (a literal, or the default {} of the parameter), else the
\* heap object the caller passes.
add(name, validateFunction, schema, options, o) ==
    LET out == Checks(self, config, name, validateFunction, schema, options)
        obj == [provider |-> out.options.provider, cache |-> out.options.cache,
                held |-> o # 0]
        oid == IF o = 0 THEN Len(heap) + 1 ELSE o
        g == Len(gateways) + 1
    IN /\ ncalls < MaxCalls
       /\ ncalls' = ncalls + 1
       /\ heap' = IF o # 0 THEN [heap EXCEPT ![o] = obj]
                  ELSE IF Registers(out) THEN Append(heap, obj)
                  ELSE heap
       /\ IF Registers(out)
          THEN LET gw == NewGateway(name, validateFunction, schema, out.options, oid)
               IN /\ gateways' = Append(gateways, StartInit(gw))
                  /\ self' = [self EXCEPT ![gw.name] = GatewayRef(gw.cls, g)]
                  /\ calls' = Append(calls, [status |-> "suspended", value |-> NoProp,
                                             error |-> NoError])
          ELSE UNCHANGED <<gateways, self, calls>>
       /\ last' = [name |-> name, error |-> out.error, lookups |-> out.lookups,
                   gw |-> IF Registers(out) THEN g ELSE 0]
       /\ UNCHANGED <<config, host, read>>

\* A caller builds an options object and keeps a reference to it.
NewOptions ==
    \E options \in OptionArgs :
        /\ Cardinality(HeldObjects) < MaxHeld
        /\ heap' = Append(heap, [provider |-> options.provider, cache |-> options.cache,
                                 held |-> TRUE])
        /\ UNCHANGED <<self, gateways, calls, config, last, ncalls, host, read>>

\* add called with an options literal (both fields undefined: the options
\* argument left out)
AddNew ==
    \E name \in NameArgs, validateFunction \in ValidateArgs, schema \in SchemaArgs,
       options \in OptionArgs :
        add(name, validateFunction, schema, options, 0)

\* add called with an options object the caller holds
AddHeld ==
    \E name \in NameArgs, validateFunction \in ValidateArgs, schema \in SchemaArgs,
       o \in HeldObjects :
        add(name, validateFunction, schema, Options(heap[o].provider, heap[o].cache), o)

\* The init() of gateway g, awaited at line 74, fulfils.
InitDone(g) ==
    /\ gateways[g].init = "running"
    /\ gateways' = [gateways EXCEPT ![g].init = "done"]
    /\ UNCHANGED <<self, calls, heap, config, last, ncalls, host, read>>

\* What the init() of a gateway may reject with (an I/O error of its provider).
InitErrors == {Err("ProviderError", "init failed")}

\* The init() of gateway g rejects.
InitFail(g) ==
    /\ gateways[g].init = "running"
    /\ \E e \in InitErrors :
          gateways' = [gateways EXCEPT ![g].init = "failed", ![g].reason = e]
    /\ UNCHANGED <<self, calls, heap, config, last, ncalls, host, read>>

\* Variant: init() is called but not awaited.
Awaited_NoAwait(gw) == TRUE

\* line 74: the await lets the call go on once the promise of init() is settled
Awaited(gw) == gw.init # "running"

\* Variant: the call returns the gateway constructed last.
Settle_ReturnsLatest(gw, s) ==
    IF gw.init = "failed"
    THEN [status |-> "rejected", value |-> NoProp, error |-> gw.reason]
    ELSE [status |-> "resolved",
          value |-> GatewayRef(gateways[Len(gateways)].cls, Len(gateways)),
          error |-> NoError]

\* Variant: a rejection of init() is caught and the gateway returned all the same.
Settle_Swallow(gw, s) == [status |-> "resolved", value |-> s[gw.name], error |-> NoError]

\* lines 74-75: what the call settles with once init() is settled
Settle(gw, s) ==
    IF gw.init = "failed"
    THEN [status |-> "rejected", value |-> NoProp, error |-> gw.reason]
    ELSE [status |-> "resolved", value |-> s[gw.name], error |-> NoError]

\* Variant: the suspended calls are resumed in the order they were made.
Resume_InOrder(g) ==
    /\ calls[g].status = "suspended"
    /\ Awaited(gateways[g])
    /\ \A h \in 1..(g - 1) : calls[h].status # "suspended"
    /\ calls' = [calls EXCEPT ![g] = Settle(gateways[g], self)]
    /\ UNCHANGED <<self, gateways, heap, config, last, ncalls, host, read>>

\* The add call that constructed gateway g resumes after the await.
Resume(g) ==
    /\ calls[g].status = "suspended"
    /\ Awaited(gateways[g])
    /\ calls' = [calls EXCEPT ![g] = Settle(gateways[g], self)]
    /\ UNCHANGED <<self, gateways, heap, config, last, ncalls, host, read>>

\* The host sets another prefix and language in client.config.
Reconfigure ==
    /\ \E h \in HostArgs : h # host /\ host' = h
    /\ UNCHANGED <<self, gateways, calls, heap, config, last, ncalls, read>>

\* lines 102-123: settings.defaultDataSchema is read (read keeps what each
\* access returned)
ReadDefaultDataSchema ==
    /\ Len(read) < MaxReads
    /\ read' = Append(read, defaultDataSchema(host))
    /\ UNCHANGED <<self, gateways, calls, heap, config, last, ncalls, host>>

\* add called with a function, no schema and no options
AddDefaults ==
    \E name \in NameArgs : add(name, Fn("validateFn"), SchemaOmitted, Options(Undefined, Undefined), 0)

\* Every add call is given an options object of its own.
Next ==
    \/ AddNew
    \/ \E g \in 1..Len(gateways) : InitDone(g)
    \/ \E g \in 1..Len(gateways) : InitFail(g)
    \/ \E g \in 1..Len(gateways) : Resume(g)

Spec == Init /\ [][Next]_vars

\* The init() of every gateway finishes (it resolves or rejects), and a call
\* whose awaited promise is settled is resumed by the event loop.
Fairness ==
    \A g \in 1..MaxCalls :
        /\ WF_vars(g <= Len(gateways) /\ (InitDone(g) \/ InitFail(g)))
        /\ WF_vars(g <= Len(gateways) /\ Resume(g))

SpecFair == Spec /\ Fairness

\* Every options object is built by a caller, who passes it to any number of
\* add calls.
NextShared ==
    \/ NewOptions
    \/ AddHeld
    \/ \E g \in 1..Len(gateways) : InitDone(g)
    \/ \E g \in 1..Len(gateways) : InitFail(g)
    \/ \E g \in 1..Len(gateways) : Resume(g)

SpecShared == Init /\ [][NextShared]_vars

\* The host configuration changes and the default schema is read while
\* domains are registered.
InitHost ==
    /\ self = constructor
    /\ gateways = <<>>
    /\ calls = <<>>
    /\ heap = <<>>
    /\ config = [engine |-> Undefined, cache |-> Undefined]
    /\ last = NoCall
    /\ ncalls = 0
    /\ host \in HostArgs
    /\ read = <<>>

NextHost ==
    \/ Reconfigure
    \/ ReadDefaultDataSchema
    \/ AddDefaults
    \/ \E g \in 1..Len(gateways) : InitDone(g)
    \/ \E g \in 1..Len(gateways) : Resume(g)

SpecHost == InitHost /\ [][NextHost]_vars

(***************************************************************************)
(* Properties.                                                             *)
(***************************************************************************)
\* The step is an add call (ncalls counts them).
IsAddStep == ncalls' = ncalls + 1

\* The property key of the name argument of the most recent call.
LastKey == ToPropertyKey(last.name)

\* Arguments no check of add objects to.
GoodValidate == Fn("validateFn")
GoodOptions == Options(Str("hybrid"), Str("hybrid"))

\* The gateway registered under key k (0 when there is none).
GatewayOf(k) == IF k \in Domains THEN self[k].id ELSE 0

\* Registered providers by the value of their cache flag.
CacheOnlyNames == {p \in ProviderNames : Providers[p].cache = "true"}
PersistentOnlyNames == {p \in ProviderNames : Providers[p].cache = "false"}

\* Arguments that pass the checks of lines 62 and 64.
Functions == {f \in ValidateArgs : f.t = "function"}
PlainSchemas ==
    {x \in SchemaArgs : SchemaParam(x).t = "object" /\ SchemaParam(x).ctor = "Object"}

\* options whose provider names a cache-only provider, and options whose
\* cache names a persistent-only provider
CacheOnlyAsProvider ==
    {o \in OptionArgs : o.provider.t = "string" /\ o.provider.v \in CacheOnlyNames}
PersistentOnlyAsCache ==
    {o \in OptionArgs : o.cache.t = "string" /\ o.cache.v \in PersistentOnlyNames}

MsgCaching == "designed for caching, not persistent data"
MsgPersistent == "designed for persistent data, not cache"

\* C1: once a gateway is registered under a name, every later add call with
\* that name throws DuplicateDomain, whatever its other arguments are and
\* whatever the state of the init() of the registered gateway is.
C1_DuplicateAfterRegistration ==
    [][(IsAddStep /\ last'.name.t = "string" /\ last'.name.v \in Domains)
         => last'.error.kind = "DuplicateDomain"]_vars

\* A duplicate attempt for a name whose gateway is still in init(), while
\* the gateway of another name has failed its init().
C1_Witness ==
    /\ last.error.kind = "DuplicateDomain"
    /\ LastKey \in Domains
    /\ gateways[GatewayOf(LastKey)].init = "running"
    /\ \E g \in 1..Len(gateways) : gateways[g].init = "failed"

\* C2: an add call that throws leaves the mapping, the gateways and the
\* pending calls as they were: nothing is registered, constructed or
\* initialised; and a name rejected for another reason than being taken is
\* not in the mapping and passes the checks when given good arguments.
C2_RejectedAddRegistersNothing ==
    /\ [][(IsAddStep /\ last'.error # NoError)
            => (self' = self /\ gateways' = gateways /\ calls' = calls)]_vars
    /\ []((last.name.t = "string" /\ last.error.kind \notin {"none", "DuplicateDomain"})
            => /\ LastKey \notin Domains
               /\ Checks(self, config, last.name, GoodValidate, EmptySchema,
                         GoodOptions).error = NoError)

\* add(name, validateFn, {}, {provider: "collection"}) has thrown
\* ProviderRoleMismatch and the name is not in the mapping.
C2_Witness ==
    /\ last.name.t = "string"
    /\ last.error = Err("ProviderRoleMismatch", MsgCaching)
    /\ last.lookups = <<Str("collection")>>
    /\ LastKey \notin Domains
    /\ ncalls < MaxCalls

\* C3: add throws DuplicateDomain only for a name a gateway is registered
\* under.
C3_DuplicateOnlyIfRegistered ==
    last.error.kind = "DuplicateDomain" => LastKey \in Domains

\* C4: with a string name that is not taken, a function and a plain schema,
\* options.provider naming a cache-only provider makes add throw
\* ProviderRoleMismatch (caching), whatever options.cache is.
C4_CacheOnlyProviderRejected ==
    [][\A validateFunction \in Functions, schema \in PlainSchemas,
          options \in CacheOnlyAsProvider :
         (/\ IsAddStep
          /\ last'.name.t = "string"
          /\ self[last'.name.v] = NoProp
          /\ add(last'.name, validateFunction, schema, options, 0))
         => (last'.error = Err("ProviderRoleMismatch", MsgCaching) /\ self' = self)]_vars

\* The persistent role was asked of the cache-only provider and refused.
C4_Witness ==
    /\ last.error = Err("ProviderRoleMismatch", MsgCaching)
    /\ Len(last.lookups) = 1
    /\ last.lookups[1].v \in CacheOnlyNames

\* C5: with the earlier checks passed and a registered persistent provider
\* that is not cache-only, options.cache naming a persistent-only provider
\* makes add throw ProviderRoleMismatch (persistent) and registers nothing.
C5_PersistentOnlyCacheRejected ==
    [][\A validateFunction \in Functions, schema \in PlainSchemas,
          options \in PersistentOnlyAsCache :
         (/\ IsAddStep
          /\ last'.name.t = "string"
          /\ self[last'.name.v] = NoProp
          /\ ProviderEngine(options, config).t = "string"
          /\ ProviderEngine(options, config).v \in ProviderNames \ CacheOnlyNames
          /\ add(last'.name, validateFunction, schema, options, 0))
         => /\ last'.error = Err("ProviderRoleMismatch", MsgPersistent)
            /\ self' = self /\ gateways' = gateways]_vars

\* The cache role was asked of a persistent-only provider and refused, the
\* persistent provider having passed.
C5_Witness ==
    /\ last.error = Err("ProviderRoleMismatch", MsgPersistent)
    /\ Len(last.lookups) = 2
    /\ last.lookups[1].v \in ProviderNames \ CacheOnlyNames
    /\ last.lookups[2].v \in PersistentOnlyNames
    /\ LastKey \notin Domains

\* C6: when the init() of a gateway has rejected, its add call rejects with
\* the very error of init() (never resolves, init() is not called again), the
\* name stays bound to that gateway, and add with that name throws
\* DuplicateDomain.
C6_InitFailurePropagates ==
    \A g \in 1..Len(gateways) :
        gateways[g].init = "failed" =>
            /\ calls[g].status \in {"suspended", "rejected"}
            /\ calls[g].status = "rejected" => calls[g].error = gateways[g].reason
            /\ gateways[g].reason \in InitErrors
            /\ gateways[g].inits = 1
            /\ GatewayOf(gateways[g].name) = g
            /\ Checks(self, config, Str(gateways[g].name), GoodValidate, EmptySchema,
                      GoodOptions).error.kind = "DuplicateDomain"

\* The call of a gateway whose init() failed has rejected, and a later add
\* with that name was refused.
C6_Witness ==
    /\ last.error.kind = "DuplicateDomain"
    /\ LastKey \in Domains
    /\ gateways[GatewayOf(LastKey)].init = "failed"
    /\ calls[GatewayOf(LastKey)].status = "rejected"

\* C7: while the init() of a gateway is running, the name is bound to that
\* gateway and the add call that made it is still suspended; a call that has
\* resolved has a gateway whose init() is done.
C7_VisibleBeforeInit ==
    \A g \in 1..Len(gateways) :
        /\ gateways[g].init = "running"
             => (GatewayOf(gateways[g].name) = g /\ calls[g].status = "suspended")
        /\ calls[g].status = "resolved" => gateways[g].init = "done"

\* One gateway is visible while its init() runs and another call has resolved.
C7_Witness ==
    \E g, h \in 1..Len(gateways) :
        /\ gateways[g].init = "running"
        /\ GatewayOf(gateways[g].name) = g
        /\ calls[h].status = "resolved"

\* C8: a name once bound is never bound again nor unbound, the gateways made
\* are never replaced, and no two gateways were made for one name.
C8_AppendOnly ==
    /\ [][/\ \A k \in PropertyKeys : self[k] # NoProp => self'[k] = self[k]
          /\ Len(gateways') >= Len(gateways)
          /\ \A g \in 1..Len(gateways) :
                /\ gateways'[g].name = gateways[g].name
                /\ gateways'[g].cls = gateways[g].cls]_vars
    /\ [](\A g, h \in 1..Len(gateways) :
            /\ gateways[g].name = gateways[h].name => g = h
            /\ GatewayOf(gateways[g].name) = g)

\* Two names are bound, the init() of one gateway failed, and a further call
\* for a bound name was refused.
C8_Witness ==
    /\ Len(gateways) = 2
    /\ \E g \in 1..2 : gateways[g].init = "failed"
    /\ last.error.kind = "DuplicateDomain"
    /\ LastKey \in Domains

\* C9: an add call whose name is not a string throws InvalidArgument, looks
\* up no provider and changes nothing; add with the string form of that
\* name and good arguments passes the checks afterwards unless a gateway is
\* registered under it.
C9_NonStringName ==
    [][(IsAddStep /\ last'.name.t # "string")
         => /\ last'.error = Err("InvalidArgument", "You must pass a name")
            /\ last'.lookups = <<>>
            /\ self' = self /\ gateways' = gateways /\ heap' = heap /\ calls' = calls
            /\ LET out == Checks(self', config', Str(ToPropertyKey(last'.name)),
                                 GoodValidate, SchemaOmitted, Options(Undefined, Undefined))
               IN IF ToPropertyKey(last'.name) \in Domains
                  THEN out.error.kind = "DuplicateDomain"
                  ELSE out.error = NoError]_vars

\* add(42, ...) was refused and "42" is free.
C9_Witness ==
    /\ last.name = Num(42)
    /\ last.error.kind = "InvalidArgument"
    /\ self["42"] = NoProp
    /\ ncalls < MaxCalls

\* C10: for every registered gateway, options.provider is a provider that is
\* not cache-only and options.cache a provider that is not persistent-only;
\* so both are the same provider only if its cache flag is not set.
C10_RolesRespected ==
    \A g \in 1..Len(gateways) :
        LET o == heap[gateways[g].options]
        IN /\ o.provider.t = "object" /\ o.provider.v \in ProviderNames \ CacheOnlyNames
           /\ o.cache.t = "object" /\ o.cache.v \in ProviderNames \ PersistentOnlyNames
           /\ o.provider = o.cache => Providers[o.provider.v].cache = "undefined"

\* One provider serves both roles of a gateway, and the options object of
\* that gateway was passed to a later call.
C10_Witness ==
    /\ \E g \in 1..Len(gateways) :
          /\ heap[gateways[g].options].provider = heap[gateways[g].options].cache
          /\ heap[gateways[g].options].held
    /\ last.error.kind = "UnknownProvider"
    /\ last.lookups = <<ProviderObj("hybrid")>>

\* options that pass line 67 under configuration cfg: the engine of the
\* persistent role names a registered provider that is not cache-only
PersistentRolePasses(options, cfg) ==
    /\ ProviderEngine(options, cfg).t = "string"
    /\ ProviderEngine(options, cfg).v \in ProviderNames \ CacheOnlyNames

MsgUnknown == "does not exist in your system"

\* C11: with the checks of lines 60-64 passed, add throws UnknownProvider when
\* the engine of the persistent role is not registered, and when that role
\* has passed and the engine of the cache role is not registered; the lookup
\* returns every registered provider, whatever its flags are.
C11_UnknownProvider ==
    /\ [][\A validateFunction \in Functions, schema \in PlainSchemas, options \in OptionArgs :
            (/\ IsAddStep
             /\ last'.name.t = "string"
             /\ self[last'.name.v] = NoProp
             /\ add(last'.name, validateFunction, schema, options, 0))
            => /\ ProviderEngine(options, config).v \notin ProviderNames
                    => /\ last'.error = Err("UnknownProvider", MsgUnknown)
                       /\ last'.lookups = <<ProviderEngine(options, config)>>
                       /\ self' = self
               /\ (/\ PersistentRolePasses(options, config)
                   /\ CacheEngine(options, config).v \notin ProviderNames)
                    => /\ last'.error = Err("UnknownProvider", MsgUnknown)
                       /\ last'.lookups = <<ProviderEngine(options, config),
                                            CacheEngine(options, config)>>
                       /\ self' = self]_vars
    /\ [](\A p \in ProviderNames :
            checkProvider(Str(p)) = [error |-> NoError, provider |-> ProviderObj(p)])

\* The persistent provider passed and the cache engine is not registered.
C11_Witness ==
    /\ last.error = Err("UnknownProvider", MsgUnknown)
    /\ Len(last.lookups) = 2
    /\ last.lookups[1].v \in ProviderNames \ CacheOnlyNames
    /\ last.lookups[2].v \notin ProviderNames
    /\ LastKey \notin Domains

\* The engine names that resolve both roles under configuration cfg.
Resolved(options, cfg) ==
    Options(ProviderObj(ProviderEngine(options, cfg).v),
            ProviderObj(CacheEngine(options, cfg).v))

\* C12: every gateway is a GatewaySQL exactly when the provider of its
\* persistent role has the sql flag, whatever its cache provider is; it is
\* constructed with the SettingsCache, the name, the validate function bound
\* to the resolver, the schema passed and the options holding both providers.
C12_GatewayVariant ==
    /\ [](\A g \in 1..Len(gateways) :
            LET gw == gateways[g]
                o == heap[gw.options]
            IN /\ gw.cls = "GatewaySQL" <=> Providers[o.provider.v].sql
               /\ gw.cls \in GatewayClasses
               /\ self[gw.name] = GatewayRef(gw.cls, g)
               /\ gw.owner = "SettingsCache"
               /\ gw.validate.boundArgs = <<"resolver">>)
    /\ [][\A validateFunction \in Functions, schema \in PlainSchemas, options \in OptionArgs :
            (/\ IsAddStep
             /\ last'.error = NoError
             /\ add(last'.name, validateFunction, schema, options, 0))
            => LET gw == gateways'[Len(gateways')]
               IN /\ gw.name = last'.name.v
                  /\ gw.validate.target = validateFunction.v
                  /\ gw.schema = (IF schema = SchemaOmitted THEN EmptySchema ELSE schema)
                  /\ Options(heap'[gw.options].provider, heap'[gw.options].cache)
                       = Resolved(options, config)]_vars

\* A relational and a document gateway are registered, and the relational
\* one has a cache provider without the sql flag.
C12_Witness ==
    \E g, h \in 1..Len(gateways) :
        /\ gateways[g].cls = "GatewaySQL"
        /\ ~Providers[heap[gateways[g].options].cache.v].sql
        /\ gateways[h].cls = "Gateway"
        /\ gateways[h].schema.keys = {"quote"}

\* The schema arguments that are supplied and are not a plain mapping.
NonPlainSchemas == {s \in SchemaArgs : s.t # "undefined" /\ s.ctor # "Object"}

\* C13: with a free string name and a function, add throws InvalidSchema for
\* every supplied schema that is not a plain mapping, and registers nothing.
C13_NonPlainSchemaRejected ==
    [][\A validateFunction \in Functions, schema \in NonPlainSchemas, options \in OptionArgs :
         (/\ IsAddStep
          /\ last'.name.t = "string"
          /\ self[last'.name.v] = NoProp
          /\ add(last'.name, validateFunction, schema, options, 0))
         => (last'.error.kind = "InvalidSchema" /\ self' = self)]_vars

\* C14: init() has been called exactly once on every gateway of the mapping,
\* by the call that inserted it, and no later step calls it again.
C14_InitOnce ==
    /\ [](\A g \in 1..Len(gateways) :
            /\ gateways[g].inits = 1
            /\ gateways[g].init # "none"
            /\ GatewayOf(gateways[g].name) = g)
    /\ [][/\ \A g \in 1..Len(gateways) : gateways'[g].inits = gateways[g].inits
          /\ Len(gateways') > Len(gateways)
               => (IsAddStep /\ Len(gateways') = Len(gateways) + 1
                   /\ gateways'[Len(gateways')].init = "running")]_vars

\* A second add for a registered name was rejected after that gateway's
\* init() had completed; init() has still been called once on it.
C14_Witness ==
    /\ last.error.kind = "DuplicateDomain"
    /\ LastKey \in Domains
    /\ gateways[GatewayOf(LastKey)].init = "done"
    /\ gateways[GatewayOf(LastKey)].inits = 1

\* The options arguments that leave the provider, the cache or both unset.
PartialOptions == {o \in OptionArgs : o.provider = Undefined \/ o.cache = Undefined}

CacheRolePasses(options, cfg) ==
    /\ CacheEngine(options, cfg).t = "string"
    /\ CacheEngine(options, cfg).v \in ProviderNames \ PersistentOnlyNames

\* What an unset role falls back to when the configuration names no engine.
DefaultEngine(set, cfgValue, fallback) ==
    IF set.t # "undefined" THEN set
    ELSE IF cfgValue.t # "undefined" THEN cfgValue ELSE Str(fallback)

\* C15: add with a string name no gateway is registered under, a function, a
\* plain schema and options leaving a role unset takes the engine of that
\* role from the configuration as it is at the call ("json" and "collection"
\* when it names none); when both engines may serve their roles the call
\* registers a gateway whose schema is the schema passed.
C15_DefaultsResolved ==
    [][\A validateFunction \in Functions, schema \in PlainSchemas, options \in PartialOptions :
         (/\ IsAddStep
          /\ last'.name.t = "string"
          /\ last'.name.v \notin Domains
          /\ PersistentRolePasses(options, config)
          /\ CacheRolePasses(options, config)
          /\ add(last'.name, validateFunction, schema, options, 0))
         => /\ last'.error = NoError
            /\ last'.lookups = <<DefaultEngine(options.provider, config.engine, "json"),
                                 DefaultEngine(options.cache, config.cache, "collection")>>
            /\ last'.gw = Len(gateways')
            /\ gateways'[last'.gw].schema = SchemaParam(schema)]_vars
\* C16: each access to defaultDataSchema returns the keys prefix, language and
\* disabledCommands, with disabledCommands.array true, language.array false,
\* prefix.array true exactly when the prefix configured at the access is an
\* array, and the defaults being the prefix and language configured at the
\* access; the access changes neither the registry nor the configuration.
C16_DefaultDataSchema ==
    /\ [][Len(read') > Len(read)
            => LET schema == read'[Len(read')]
               IN /\ read' = Append(read, schema)
                  /\ DOMAIN schema = {"prefix", "language", "disabledCommands"}
                  /\ schema["disabledCommands"].array = TRUE
                  /\ schema["language"].array = FALSE
                  /\ schema["prefix"].array = (host.prefix.ctor = "Array")
                  /\ schema["prefix"].default = host.prefix
                  /\ schema["language"].default = host.language
                  /\ UNCHANGED <<self, gateways, calls, heap, config, last, ncalls, host>>]_vars
    /\ [](\A i \in 1..Len(read) : \E h \in HostArgs : read[i] = defaultDataSchema(h))

\* Two accesses returned different schemas, the later one that of the
\* configuration now in force, with a domain registered in between or before.
C16_Witness ==
    /\ Len(read) = 2
    /\ read[1]["prefix"].array # read[2]["prefix"].array
    /\ read[1]["language"].default # read[2]["language"].default
    /\ read[2]["prefix"].default = host.prefix
    /\ Domains # {}

\* The names no property of the instance is defined under.
FreeNames == {n \in NameArgs : n.t = "string" /\ self[n.v] = NoProp}

\* C17: a call whose init() has not finished stays suspended, and whatever
\* the other gateways are doing an add for a free name passes its checks, a
\* running init() may finish and a call whose init() has finished may resume;
\* with every init() finishing, every call is settled in the end.
C17_IndependentRegistrations ==
    /\ [](\A g \in 1..Len(gateways) :
            /\ gateways[g].init = "running" => calls[g].status = "suspended"
            /\ gateways[g].init = "running" => ENABLED InitDone(g)
            /\ (calls[g].status = "suspended" /\ gateways[g].init # "running")
                 => ENABLED Resume(g))
    /\ [](\A name \in FreeNames :
            /\ Checks(self, config, name, GoodValidate, SchemaOmitted, GoodOptions).error = NoError
            /\ ncalls < MaxCalls => ENABLED add(name, GoodValidate, SchemaOmitted, GoodOptions, 0))
    /\ \A g \in 1..MaxCalls :
          (g <= Len(calls) /\ calls[g].status = "suspended")
             ~> (g <= Len(calls) /\ calls[g].status \in {"resolved", "rejected"})

\* The first call is still waiting for its init() while the second, made
\* later for another name, has resolved with its gateway.
C17_Witness ==
    /\ Len(calls) >= 2
    /\ gateways[1].init = "running"
    /\ calls[1].status = "suspended"
    /\ calls[2].status = "resolved"
    /\ calls[2].value = self[gateways[2].name]
    /\ gateways[2].name # gateways[1].name

\* The kind of the first check, in the order of lines 60-69, that the
\* arguments violate ("none" when they violate none), a name counting as
\* registered when a gateway is stored under it.
FirstViolated(name, validateFunction, schema, options, cfg) ==
    IF name.t # "string" THEN "InvalidArgument"
    ELSE IF name.v \in Domains THEN "DuplicateDomain"
    ELSE IF validateFunction.t # "function" THEN "InvalidArgument"
    ELSE IF schema.t # "undefined" /\ schema.ctor # "Object" THEN "InvalidSchema"
    ELSE IF ProviderEngine(options, cfg).v \notin ProviderNames THEN "UnknownProvider"
    ELSE IF ProviderEngine(options, cfg).v \in CacheOnlyNames THEN "ProviderRoleMismatch"
    ELSE IF CacheEngine(options, cfg).v \notin ProviderNames THEN "UnknownProvider"
    ELSE IF CacheEngine(options, cfg).v \in PersistentOnlyNames THEN "ProviderRoleMismatch"
    ELSE "none"

\* C18: the error of an add call is that of the first check its arguments
\* violate, in the order name is a string, name not registered, validate
\* function, plain schema, persistent provider exists, is not cache-only,
\* cache provider exists, is not persistent-only.
C18_FirstViolatedCheck ==
    [][\A validateFunction \in ValidateArgs, schema \in SchemaArgs, options \in OptionArgs :
         (/\ IsAddStep
          /\ add(last'.name, validateFunction, schema, options, 0))
         => last'.error.kind
              = FirstViolated(last'.name, validateFunction, schema, options, config)]_vars

\* C19: after any add call, an options object its caller holds still has the
\* provider and cache engine names the caller put in it.
C19_OptionsInputOnly ==
    \A o \in HeldObjects : Options(heap[o].provider, heap[o].cache) \in OptionArgs

\* C20: a call that has resolved returned the gateway it constructed, which
\* is the one stored under its name, after the init() of that gateway
\* completed; the gateway keeps the name, class, validate function, schema
\* and options it was constructed with, and a settled call stays as it is.
C20_ReturnsOwnGateway ==
    /\ [](\A g \in 1..Len(calls) :
            calls[g].status = "resolved"
              => /\ calls[g].value = GatewayRef(gateways[g].cls, g)
                 /\ calls[g].value = self[gateways[g].name]
                 /\ gateways[g].init = "done"
                 /\ calls[g].error = NoError)
    /\ [][\A g \in 1..Len(gateways) :
            /\ [gateways'[g] EXCEPT !.init = "", !.reason = NoError]
                 = [gateways[g] EXCEPT !.init = "", !.reason = NoError]
            /\ heap'[gateways[g].options] = heap[gateways[g].options]
            /\ self'[gateways[g].name] = self[gateways[g].name]
            /\ calls[g].status # "suspended" => calls'[g] = calls[g]]_vars

\* Two calls for different names have resolved, the second with its SQL
\* gateway and the first with its own, and a third call was rejected.
C20_Witness ==
    /\ Len(calls) = 2
    /\ calls[1].status = "resolved"
    /\ calls[2].status = "resolved"
    /\ calls[1].value # calls[2].value
    /\ calls[1].value.cls = "Gateway"
    /\ calls[2].value.cls = "GatewaySQL"
    /\ ncalls = 3
    /\ last.error.kind = "DuplicateDomain"

====
